---------------------------- MODULE Spec2Model ----------------------------
(***************************************************************************)
(* Model of examples/python_parser.py (class AudibleUtilParser): a         *)
(* supervisor that spawns audible-util with --machine-readable, reads its  *)
(* standard output line by line, decodes each line as JSON, updates the    *)
(* progress state, renders the event, and maps the child's exit status to  *)
(* its own return value; and of examples/simple_json_parser.py, a second   *)
(* consumer of the same stream.                                            *)
(*                                                                         *)
(* Conventions.  JSON numbers are carried as integers.  The two fields     *)
(* that are fractional in the protocol, progress_percentage and            *)
(* eta_seconds, are carried in tenths (Scale = 10): 42.7 is 427.           *)
(* file_size is a byte count in two parts (see Bytes).                     *)
(* A line of text is a sequence of tokens: whitespace, one complete JSON   *)
(* document, or junk (characters that begin no JSON value).                *)
(* Printed output is a sequence of tuples, one per print call.             *)
(***************************************************************************)
EXTENDS Integers, Sequences, FiniteSets, TLC

VARIABLES
    pc,                 \* position of run_conversion
    current_chapter,    \* self.current_chapter
    total_chapters,     \* self.total_chapters
    start_time,         \* self.start_time (None until set)
    conversion_success, \* self.conversion_success
    out,                \* what has been printed, in order
    handled,            \* how many times handle_event has been called
    lines,              \* the standard-output lines read so far
    child,              \* the spawned child: its exit status and stderr text
                        \* (in SpecPipes also its program and its pipes)
    return_code,        \* the local return_code of run_conversion
    ret,                \* the value run_conversion returned
    shadow              \* a second run stepped beside the first

vars == <<pc, current_chapter, total_chapters, start_time, conversion_success,
          out, handled, lines, child, return_code, ret, shadow>>

---------------------------------------------------------------------------
(* Bounds of the model *)

MaxLines == 3
MaxChapters == 2
MaxExit == 2
MaxTime == 1
MaxPct == 110
MaxEta == 26

(* Program constants *)

Scale == 10
bar_length == 40
SpawnFailCode == 1
KiB == 1024

---------------------------------------------------------------------------
(* Python's None, and a value that is present *)

None == <<>>
Some(x) == <<x>>

(* JSON values *)

JNum(n) == [j |-> "num", v |-> n]
JStr(s) == [j |-> "str", v |-> s]
JBool(b) == [j |-> "bool", v |-> b]
JNull == [j |-> "null", v |-> 0]
JArr(n) == [j |-> "arr", v |-> n]
JObj(f) == [j |-> "obj", v |-> f]

(* Lines of text *)

WS == [tok |-> "ws"]
Junk == [tok |-> "junk"]
Doc(val) == [tok |-> "json", val |-> val]

RECURSIVE lstrip(_)
lstrip(s) == IF s # <<>> /\ Head(s) = WS THEN lstrip(Tail(s)) ELSE s

RECURSIVE rstrip(_)
rstrip(s) ==
    IF s # <<>> /\ s[Len(s)] = WS THEN rstrip(SubSeq(s, 1, Len(s) - 1)) ELSE s

strip(s) == rstrip(lstrip(s))

(* json.loads: whitespace before and after the document is skipped; an     *)
(* empty text, junk, or anything after the first document raises           *)
(* JSONDecodeError (ok = FALSE).                                           *)
json_loads(s) ==
    LET body == rstrip(lstrip(s))
    IN  IF Len(body) = 1 /\ body[1].tok = "json"
        THEN [ok |-> TRUE, val |-> body[1].val]
        ELSE [ok |-> FALSE, val |-> JNull]

(* A parse_event that hands back the raw text when decoding fails *)
parse_event_raw(line) ==
    LET r == json_loads(strip(line))
    IN  IF r.ok THEN r.val ELSE JStr("raw line")

(* parse_event: the decoded value, or None (JNull) on JSONDecodeError.     *)
(* A line holding the JSON literal null also yields None.                  *)
parse_event(line) ==
    LET r == json_loads(strip(line))
    IN  IF r.ok THEN r.val ELSE JNull

(* Python truthiness of a decoded value: `if event:` *)
Truthy(x) ==
    CASE x.j = "null" -> FALSE
      [] x.j = "bool" -> x.v
      [] x.j = "num" -> x.v # 0
      [] x.j = "str" -> x.v # ""
      [] x.j = "arr" -> x.v > 0
      [] x.j = "obj" -> DOMAIN x.v # {}

(* dict.get(key, default) *)
get(event, key, default) ==
    IF key \in DOMAIN event.v THEN event.v[key] ELSE default

(* Whether format(x, ".1f") / format(x, ".0f") succeeds *)
FormatsAsFloat(x) == x.j \in {"num", "bool"}

(* The number a float format or arithmetic sees *)
AsNumber(x) == IF x.j = "bool" THEN (IF x.v THEN 1 ELSE 0) ELSE x.v

IsStr(x, s) == x.j = "str" /\ x.v = s

(* int(a / b) for b > 0: truncation toward zero *)
TruncDiv(a, b) == IF a >= 0 THEN a \div b ELSE -((-a) \div b)

(* format(a / b, ".0f") for a >= 0, b > 0: nearest integer, ties to even *)
RoundHalfEven(a, b) ==
    LET q == a \div b
        r == a % b
    IN  IF 2 * r < b THEN q
        ELSE IF 2 * r > b THEN q + 1
        ELSE IF q % 2 = 0 THEN q ELSE q + 1

(* The length of ch * n for a one-character string ch: empty when n <= 0 *)
Repeat(n) == IF n > 0 THEN n ELSE 0

Pow1024(k) == IF k = 0 THEN 1 ELSE IF k = 1 THEN KiB ELSE IF k = 2 THEN KiB * KiB
              ELSE KiB * KiB * KiB

units == <<"B", "KB", "MB", "GB">>

(* size / 1024^k printed with one decimal (format ".1f": nearest tenth,    *)
(* ties to even), as a count of tenths.  The division by a power of two is *)
(* exact in floating point, so the result is that of exact arithmetic; it  *)
(* is computed here in base-1024 parts to stay within 32-bit integers.     *)
size_tenths(n, k) ==
    IF k = 0 THEN 10 * n
    ELSE LET d == Pow1024(k)
             q == n \div d
             r == n % d
             D == d \div KiB
             r1 == r \div KiB
             r0 == r % KiB
             A == 10 * r1 + ((10 * r0) \div KiB)
             B == (10 * r0) % KiB
             base == 10 * q + (A \div D)
             hi == 2 * (A % D) + ((2 * B) \div KiB)
             lo == (2 * B) % KiB
         IN  IF hi > D \/ (hi = D /\ lo > 0) THEN base + 1
             ELSE IF hi = D /\ lo = 0 /\ base % 2 = 1 THEN base + 1
             ELSE base

(* A byte count.  File sizes pass 2^31, so a count is carried in two       *)
(* parts: gib whole GiB and rest < 1024^3 bytes beyond them.               *)
Bytes(g, r) == [gib |-> g, rest |-> r]

(* A format_file_size whose loop divides while size > 1024 *)
format_file_size_strict(size_bytes) ==
    IF size_bytes = Bytes(0, 0) THEN <<0, "0 B">>
    ELSE LET stops == {k \in 0 .. Len(units) - 1 :
                          \/ /\ size_bytes.gib = 0
                             /\ ((size_bytes.rest - 1) \div Pow1024(k)) < KiB
                          \/ k = Len(units) - 1}
             unit_index == CHOOSE k \in stops : \A m \in stops : k <= m
         IN  <<10 * size_bytes.gib + size_tenths(size_bytes.rest, unit_index),
               units[unit_index + 1]>>

(* format_file_size: <<tenths, unit>> stands for f"{size:.1f} {unit}".     *)
(* The loop divides while size >= 1024 and a larger unit is left; a count  *)
(* of a GiB or more ends in the last unit, where each whole GiB is ten     *)
(* tenths.                                                                 *)
format_file_size(size_bytes) ==
    IF size_bytes = Bytes(0, 0) THEN <<0, "0 B">>
    ELSE LET stops == {k \in 0 .. Len(units) - 1 :
                          \/ /\ size_bytes.gib = 0
                             /\ (size_bytes.rest \div Pow1024(k)) < KiB
                          \/ k = Len(units) - 1}
             unit_index == CHOOSE k \in stops : \A m \in stops : k <= m
         IN  <<10 * size_bytes.gib + size_tenths(size_bytes.rest, unit_index),
               units[unit_index + 1]>>

(* A filled_length that rounds to the nearest cell *)
filled_length_rounded(pct) ==
    (2 * bar_length * pct + 100 * Scale) \div (2 * 100 * Scale)

(* filled_length = int(bar_length * progress_pct / 100), pct in tenths *)
filled_length(pct) == TruncDiv(bar_length * pct, 100 * Scale)

(* eta_str = f"{eta:.0f}s" if eta else "Unknown"; eta in tenths *)
eta_str(eta) ==
    IF Truthy(eta) THEN <<RoundHalfEven(AsNumber(eta), Scale), "s">>
    ELSE <<0, "Unknown">>

---------------------------------------------------------------------------
(* handle_event *)

Self(cc, tc, st, cs) ==
    [current_chapter |-> cc, total_chapters |-> tc, start_time |-> st,
     conversion_success |-> cs]

(* The outcome of a call: the object after it, what it printed, and the    *)
(* exception that left it ("" when it returned).                           *)
Outcome(self, printed, exc) == [self |-> self, printed |-> printed, exc |-> exc]

(* An on_conversion_started that looks the count up under the wrong key *)
on_conversion_started_wrong_key(self, event, now) ==
    LET total == get(event, "total", JNum(0))
        s1 == [self EXCEPT !.total_chapters = total.v]
        s2 == [s1 EXCEPT !.start_time = Some(now)]
    IN  Outcome(s2, << <<"conversion_started", s1.total_chapters>>,
                       <<"output_path">> >>, "")

(* An on_conversion_started that prints the time it recorded *)
on_conversion_started_prints_clock(self, event, now) ==
    LET total == get(event, "total_chapters", JNum(0))
        s1 == [self EXCEPT !.total_chapters = total.v]
        s2 == [s1 EXCEPT !.start_time = Some(now)]
    IN  Outcome(s2, << <<"conversion_started", s1.total_chapters>>,
                       <<"output_path">>, <<"started_at", now>> >>, "")

on_conversion_started(self, event, now) ==
    LET total == get(event, "total_chapters", JNum(0))
        s1 == [self EXCEPT !.total_chapters = total.v]
        s2 == [s1 EXCEPT !.start_time = Some(now)]
    IN  Outcome(s2, << <<"conversion_started", s1.total_chapters>>,
                       <<"output_path">> >>, "")

(* An on_chapter_started that counts chapters from zero *)
on_chapter_started_off_by_one(self, event) ==
    LET chapter_num == get(event, "chapter_number", JNum(0))
        duration == get(event, "duration_seconds", JNum(0))
        s1 == [self EXCEPT !.current_chapter = chapter_num.v + 1]
        header == <<"chapter", chapter_num.v, s1.total_chapters>>
    IN  IF FormatsAsFloat(duration)
        THEN Outcome(s1, <<header, <<"duration", AsNumber(duration)>> >>, "")
        ELSE Outcome(s1, <<header>>, "ValueError")

(* An on_chapter_started that rejects a chapter beyond the announced total *)
on_chapter_started_strict(self, event) ==
    LET chapter_num == get(event, "chapter_number", JNum(0))
        duration == get(event, "duration_seconds", JNum(0))
        s1 == [self EXCEPT !.current_chapter = chapter_num.v]
        header == <<"chapter", chapter_num.v, s1.total_chapters>>
    IN  IF chapter_num.v > self.total_chapters
        THEN Outcome(self, <<>>, "ValueError")
        ELSE IF FormatsAsFloat(duration)
        THEN Outcome(s1, <<header, <<"duration", AsNumber(duration)>> >>, "")
        ELSE Outcome(s1, <<header>>, "ValueError")

on_chapter_started(self, event) ==
    LET chapter_num == get(event, "chapter_number", JNum(0))
        duration == get(event, "duration_seconds", JNum(0))
        s1 == [self EXCEPT !.current_chapter = chapter_num.v]
        header == <<"chapter", chapter_num.v, s1.total_chapters>>
    IN  IF FormatsAsFloat(duration)
        THEN Outcome(s1, <<header, <<"duration", AsNumber(duration)>> >>, "")
        ELSE Outcome(s1, <<header>>, "ValueError")

on_chapter_progress(self, event) ==
    LET progress_pct == get(event, "progress_percentage", JNum(0))
        file_size == get(event, "file_size", JNum(Bytes(0, 0)))
        eta == get(event, "eta_seconds", JNull)
    IN  IF ~FormatsAsFloat(progress_pct)
        THEN Outcome(self, <<>>, "TypeError")
        ELSE IF Truthy(eta) /\ ~FormatsAsFloat(eta)
        THEN Outcome(self, <<>>, "ValueError")
        ELSE LET filled == filled_length(AsNumber(progress_pct))
             IN  Outcome(self,
                         << <<"progress", Repeat(filled),
                              Repeat(bar_length - filled),
                              AsNumber(progress_pct),
                              format_file_size(file_size.v),
                              eta_str(eta)>> >>, "")

(* An on_chapter_completed that also records the chapter as current *)
on_chapter_completed_sets_current(self, event) ==
    LET chapter_num == get(event, "chapter_number", JNum(0))
        duration == get(event, "duration_seconds", JNum(0))
        s1 == [self EXCEPT !.current_chapter = chapter_num.v]
        head == << <<"chapter_completed", chapter_num.v>>, <<"output_file">> >>
    IN  IF FormatsAsFloat(duration)
        THEN Outcome(s1, Append(head, <<"duration", AsNumber(duration)>>), "")
        ELSE Outcome(s1, head, "ValueError")

on_chapter_completed(self, event) ==
    LET chapter_num == get(event, "chapter_number", JNum(0))
        duration == get(event, "duration_seconds", JNum(0))
        head == << <<"chapter_completed", chapter_num.v>>, <<"output_file">> >>
    IN  IF FormatsAsFloat(duration)
        THEN Outcome(self, Append(head, <<"duration", AsNumber(duration)>>), "")
        ELSE Outcome(self, head, "ValueError")

(* An on_conversion_completed that forgets to record the flag *)
on_conversion_completed_no_flag(self, event) ==
    LET total_duration == get(event, "total_duration_seconds", JNum(0))
        success == get(event, "success", JBool(FALSE))
    IN  IF success.v
        THEN Outcome(self, << <<"success_banner">>,
                              <<"total_time", AsNumber(total_duration)>> >>, "")
        ELSE Outcome(self, << <<"failure_banner">> >>, "")

on_conversion_completed(self, event) ==
    LET total_duration == get(event, "total_duration_seconds", JNum(0))
        success == get(event, "success", JBool(FALSE))
        s1 == [self EXCEPT !.conversion_success = success.v]
    IN  IF success.v
        THEN IF FormatsAsFloat(total_duration)
             THEN Outcome(s1, << <<"success_banner">>,
                                 <<"total_time", AsNumber(total_duration)>> >>, "")
             ELSE Outcome(s1, << <<"success_banner">> >>, "ValueError")
        ELSE Outcome(s1, << <<"failure_banner">> >>, "")

(* An on_error that treats the event as fatal *)
on_error_fatal(self, event) ==
    LET chapter_num == get(event, "chapter_number", JNull)
    IN  IF Truthy(chapter_num)
        THEN Outcome(self, << <<"error_in_chapter", chapter_num.v>> >>,
                     "RuntimeError")
        ELSE Outcome(self, << <<"error">> >>, "RuntimeError")

on_error(self, event) ==
    LET chapter_num == get(event, "chapter_number", JNull)
    IN  IF Truthy(chapter_num)
        THEN Outcome(self, << <<"error_in_chapter", chapter_num.v>> >>, "")
        ELSE Outcome(self, << <<"error">> >>, "")

handle_event(self, event, now) ==
    IF event.j # "obj" THEN Outcome(self, <<>>, "AttributeError")
    ELSE LET event_type == get(event, "type", JNull)
         IN  CASE IsStr(event_type, "conversion_started") ->
                      on_conversion_started(self, event, now)
               [] IsStr(event_type, "chapter_started") ->
                      on_chapter_started(self, event)
               [] IsStr(event_type, "chapter_progress") ->
                      on_chapter_progress(self, event)
               [] IsStr(event_type, "chapter_completed") ->
                      on_chapter_completed(self, event)
               [] IsStr(event_type, "conversion_completed") ->
                      on_conversion_completed(self, event)
               [] IsStr(event_type, "error") -> on_error(self, event)
               [] OTHER -> Outcome(self, <<>>, "")

---------------------------------------------------------------------------
(* run_conversion.  A run is the record of one call: its position, the     *)
(* parser object, the output so far, the local return_code and the         *)
(* returned value.  Each step of the method is a function on runs; the     *)
(* actions below apply the steps to the variables.                         *)

Run(p, self, o, h, rc, r) ==
    [pc |-> p, self |-> self, out |-> o, handled |-> h, return_code |-> rc,
     ret |-> r]

(* After __init__, before run_conversion is called *)
NewRun == Run("start", Self(0, 0, None, FALSE), <<>>, 0, None, None)

Banner == << <<"starting">>, <<"rule">> >>

(* except Exception as e: print, return 1 *)
on_exception(r, exc) ==
    [r EXCEPT !.out = Append(@, <<"error_running", exc>>),
              !.ret = Some(SpawnFailCode),
              !.pc = "done"]

(* The prints before the try block, and a Popen that succeeds *)
run_spawn(r) == [r EXCEPT !.out = @ \o Banner, !.pc = "reading"]

(* The prints before the try block, and a Popen that raises *)
run_spawn_fail(r, cause) ==
    on_exception([r EXCEPT !.out = @ \o Banner], cause)

(* A loop body whose parse_event lets JSONDecodeError escape *)
run_line_uncaught(r, line, now) ==
    IF ~json_loads(strip(line)).ok THEN on_exception(r, "JSONDecodeError")
    ELSE LET event == json_loads(strip(line)).val
         IN  IF ~Truthy(event) THEN r
             ELSE LET o == handle_event(r.self, event, now)
                      r1 == [r EXCEPT !.self = o.self,
                                      !.out = @ \o o.printed,
                                      !.handled = @ + 1]
                  IN  IF o.exc = "" THEN r1 ELSE on_exception(r1, o.exc)

(* One pass of the loop body: parse_event, then handle_event when the      *)
(* decoded value is truthy; an exception leaves the loop for the handler.  *)
run_line(r, line, now) ==
    LET event == parse_event(line)
    IN  IF ~Truthy(event) THEN r
        ELSE LET o == handle_event(r.self, event, now)
                 r1 == [r EXCEPT !.self = o.self,
                                 !.out = @ \o o.printed,
                                 !.handled = @ + 1]
             IN  IF o.exc = "" THEN r1 ELSE on_exception(r1, o.exc)

(* The loop ends at end-of-stream *)
run_eof(r) == [r EXCEPT !.pc = "waiting"]

(* return_code = process.wait() *)
run_wait(r, ch) == [r EXCEPT !.return_code = Some(ch.exit_code), !.pc = "exited"]

(* if return_code != 0: read stderr, report, return return_code *)
run_report(r, ch) ==
    [r EXCEPT !.out = @ \o << <<"process_failed", r.return_code[1]>>,
                              <<"error_output", ch.stderr>> >>,
              !.ret = r.return_code,
              !.pc = "done"]

(* return 0 *)
run_return(r) == [r EXCEPT !.ret = Some(0), !.pc = "done"]

(* A tail of run_conversion that reads stderr whatever the exit status *)
run_finish_always_reports(r, ch) == run_report(r, ch)

(* The tail of run_conversion after wait: the branch on return_code *)
run_finish(r, ch) ==
    IF r.return_code # Some(0) THEN run_report(r, ch) ELSE run_return(r)

---------------------------------------------------------------------------
(* The state machine *)

self_now ==
    Self(current_chapter, total_chapters, start_time, conversion_success)

Cur == Run(pc, self_now, out, handled, return_code, ret)

Becomes(r) ==
    /\ pc' = r.pc
    /\ current_chapter' = r.self.current_chapter
    /\ total_chapters' = r.self.total_chapters
    /\ start_time' = r.self.start_time
    /\ conversion_success' = r.self.conversion_success
    /\ out' = r.out
    /\ handled' = r.handled
    /\ return_code' = r.return_code
    /\ ret' = r.ret

NewShadow == [run |-> NewRun, inserted |-> None]

Init ==
    /\ pc = NewRun.pc
    /\ current_chapter = NewRun.self.current_chapter
    /\ total_chapters = NewRun.self.total_chapters
    /\ start_time = NewRun.self.start_time
    /\ conversion_success = NewRun.self.conversion_success
    /\ out = NewRun.out
    /\ handled = NewRun.handled
    /\ return_code = NewRun.return_code
    /\ ret = NewRun.ret
    /\ lines = <<>>
    /\ child = None
    /\ shadow = NewShadow

(* What the environment supplies: the child's exit status and stderr text, *)
(* the clock, the reason a spawn fails, and the lines the child writes.    *)

ExitCodes == 0 .. MaxExit
StderrTexts == {"voucher not found"}
Children == [exit_code : ExitCodes, stderr : StderrTexts]
Times == 1 .. MaxTime
SpawnErrors == {"FileNotFoundError", "PermissionError"}

Line(val) == <<Doc(val), WS>>

ConversionStarted(n) ==
    JObj([type |-> JStr("conversion_started"), total_chapters |-> JNum(n)])
ChapterStarted(k, d) ==
    JObj([type |-> JStr("chapter_started"), chapter_number |-> JNum(k),
          duration_seconds |-> d])
ChapterProgress(k, p, size) ==
    JObj([type |-> JStr("chapter_progress"), chapter_number |-> JNum(k),
          progress_percentage |-> JNum(p),
          file_size |-> JNum(Bytes(0, size))])
ChapterProgressEta(k, p, size, eta) ==
    JObj([type |-> JStr("chapter_progress"), chapter_number |-> JNum(k),
          progress_percentage |-> JNum(p),
          file_size |-> JNum(Bytes(0, size)), eta_seconds |-> JNum(eta)])
ChapterCompleted(k, d) ==
    JObj([type |-> JStr("chapter_completed"), chapter_number |-> JNum(k),
          duration_seconds |-> d])
ConversionCompleted(b) ==
    JObj([type |-> JStr("conversion_completed"), success |-> JBool(b),
          total_duration_seconds |-> JNum(1)])
ErrorEvent == JObj([type |-> JStr("error"), message |-> JStr("ffmpeg failed")])
ErrorEventIn(k) ==
    JObj([type |-> JStr("error"), message |-> JStr("ffmpeg failed"),
          chapter_number |-> JNum(k)])
UnknownEvent == JObj([type |-> JStr("heartbeat")])

(* Lines that are not valid JSON: `not json`, a blank line, and a document *)
(* followed by junk.                                                       *)
MalformedLines ==
    { <<Junk, WS>>, <<WS>>, <<Doc(UnknownEvent), Junk, WS>> }

(* Valid JSON that is not an event of the schema *)
OddLines == { Line(JArr(1)), Line(UnknownEvent) }

EventLines ==
    {Line(ConversionStarted(n)) : n \in 1 .. MaxChapters}
    \cup {Line(ChapterStarted(k, JNum(1))) : k \in 1 .. MaxChapters + 1}
    \cup {Line(ChapterProgress(1, 50 * Scale, KiB)),
          Line(ChapterCompleted(1, JNum(1))),
          Line(ConversionCompleted(TRUE)),
          Line(ConversionCompleted(FALSE)),
          Line(ErrorEvent)}

StdoutLines == MalformedLines \cup OddLines \cup EventLines

(* The steps of run_conversion on the variables.  Each leaves the shadow   *)
(* run to the action that uses the step.                                   *)

(* Popen succeeds: the child exists, with the exit status it will end with *)
SpawnStep ==
    /\ pc = "start"
    /\ \E ch \in Children : child' = ch
    /\ Becomes(run_spawn(Cur))
    /\ UNCHANGED lines

(* Popen raises *)
SpawnFailStep(cause) ==
    /\ pc = "start"
    /\ Becomes(run_spawn_fail(Cur, cause))
    /\ UNCHANGED <<lines, child>>

(* The loop reads the next line the child wrote and processes it *)
ReadStep(line, now) ==
    /\ pc = "reading"
    /\ lines' = Append(lines, line)
    /\ Becomes(run_line(Cur, line, now))
    /\ UNCHANGED child

(* The child closed its standard output *)
EofStep ==
    /\ pc = "reading"
    /\ Becomes(run_eof(Cur))
    /\ UNCHANGED <<lines, child>>

WaitStep ==
    /\ pc = "waiting"
    /\ Becomes(run_wait(Cur, child))
    /\ UNCHANGED <<lines, child>>

ReportFailureStep ==
    /\ pc = "exited"
    /\ return_code # Some(0)
    /\ Becomes(run_report(Cur, child))
    /\ UNCHANGED <<lines, child>>

ReturnSuccessStep ==
    /\ pc = "exited"
    /\ return_code = Some(0)
    /\ Becomes(run_return(Cur))
    /\ UNCHANGED <<lines, child>>

---------------------------------------------------------------------------
(* One run, with a child that may write any line of StdoutLines *)

Spawn == SpawnStep /\ UNCHANGED shadow

SpawnFail == (\E cause \in SpawnErrors : SpawnFailStep(cause)) /\ UNCHANGED shadow

ReadLine(line, now) == ReadStep(line, now) /\ UNCHANGED shadow

(* The model stops the child after MaxLines lines *)
Read ==
    /\ Len(lines) < MaxLines
    /\ \E line \in StdoutLines, now \in Times : ReadLine(line, now)

Eof == EofStep /\ UNCHANGED shadow

Wait == WaitStep /\ UNCHANGED shadow

ReportFailure == ReportFailureStep /\ UNCHANGED shadow

ReturnSuccess == ReturnSuccessStep /\ UNCHANGED shadow

Next ==
    \/ Spawn
    \/ SpawnFail
    \/ Read
    \/ Eof
    \/ Wait
    \/ ReportFailure
    \/ ReturnSuccess

Spec == Init /\ [][Next]_vars

---------------------------------------------------------------------------
(* A child that follows the protocol: ConversionStarted(N), then for each  *)
(* chapter 1..N ChapterStarted, ChapterProgress, ChapterCompleted, then    *)
(* ConversionCompleted(success=true).  WellFormedNext(h) is what such a    *)
(* child may write after the lines h.                                      *)

ProgressOf(k) ==
    { Line(ChapterProgress(k, 50 * Scale, KiB)),
      Line(ChapterProgressEta(k, 100 * Scale, KiB + KiB \div 2, 427)) }

WellFormedNext(h) ==
    IF h = <<>> THEN {Line(ConversionStarted(n)) : n \in 0 .. MaxChapters}
    ELSE LET n == Head(h)[1].val.v.total_chapters.v
             k == ((Len(h) - 1) \div 3) + 1
             phase == (Len(h) - 1) % 3
         IN  IF Len(h) > 3 * n + 1 THEN {}
             ELSE IF Len(h) = 3 * n + 1 THEN {Line(ConversionCompleted(TRUE))}
             ELSE IF phase = 0 THEN {Line(ChapterStarted(k, JNum(k)))}
             ELSE IF phase = 1 THEN ProgressOf(k)
             ELSE {Line(ChapterCompleted(k, JNum(k)))}

ReadWellFormed ==
    \E line \in WellFormedNext(lines), now \in Times : ReadLine(line, now)

NextWellFormed ==
    \/ Spawn
    \/ SpawnFail
    \/ ReadWellFormed
    \/ Eof
    \/ Wait
    \/ ReportFailure
    \/ ReturnSuccess

SpecWellFormed == Init /\ [][NextWellFormed]_vars

---------------------------------------------------------------------------
(* A child that writes one ChapterProgress line, with any percentage from  *)
(* -MaxPct to MaxPct in steps of 0.5 and eta_seconds absent or from 0 to   *)
(* MaxEta tenths of a second, or 42.7.                                     *)

PctValues == {5 * h : h \in -2 * MaxPct .. 2 * MaxPct}
EtaValues == (0 .. MaxEta) \cup {427}

ProgressLines ==
    {Line(ChapterProgress(1, p, KiB)) : p \in PctValues}
    \cup {Line(ChapterProgressEta(1, p, KiB, eta)) :
              p \in PctValues, eta \in EtaValues}

ReadProgress ==
    /\ lines = <<>>
    /\ \E line \in ProgressLines, now \in Times : ReadLine(line, now)

NextRender ==
    \/ Spawn
    \/ SpawnFail
    \/ ReadProgress
    \/ Eof
    \/ Wait
    \/ ReportFailure
    \/ ReturnSuccess

SpecRender == Init /\ [][NextRender]_vars

---------------------------------------------------------------------------
(* Two runs side by side.  The run on the variables reads the child's      *)
(* lines; the shadow run is given the same spawn outcome, the same lines,  *)
(* the same clock readings and the same exit status, and in addition one   *)
(* malformed line inserted at a position of the stream.                    *)

PairLines ==
    { <<Junk, WS>>, Line(JArr(1)), Line(JArr(0)), Line(UnknownEvent),
      Line(ChapterStarted(MaxChapters, JNum(1))),
      Line(ChapterStarted(1, JStr("1:30"))),
      Line(ChapterProgress(1, 50 * Scale, KiB)),
      Line(ConversionCompleted(TRUE)),
      Line(ErrorEvent) }
    \cup {Line(ConversionStarted(n)) : n \in 1 .. MaxChapters}

ShadowStep(r) == shadow' = [shadow EXCEPT !.run = r]

PairSpawn == SpawnStep /\ ShadowStep(run_spawn(shadow.run))

PairSpawnFail ==
    \E cause \in SpawnErrors :
        SpawnFailStep(cause) /\ ShadowStep(run_spawn_fail(shadow.run, cause))

PairRead ==
    /\ Len(lines) < MaxLines
    /\ \E line \in PairLines, now \in Times :
          /\ ReadStep(line, now)
          /\ ShadowStep(IF shadow.run.pc = "reading"
                        THEN run_line(shadow.run, line, now)
                        ELSE shadow.run)

(* The shadow run alone reads the inserted line *)
InsertMalformed ==
    /\ pc = "reading"
    /\ shadow.run.pc = "reading"
    /\ shadow.inserted = None
    /\ \E line \in MalformedLines, now \in Times :
          shadow' = [run |-> run_line(shadow.run, line, now),
                     inserted |-> Some(Len(lines))]
    /\ UNCHANGED <<pc, current_chapter, total_chapters, start_time,
                   conversion_success, out, handled, lines, child,
                   return_code, ret>>

PairEof ==
    /\ EofStep
    /\ ShadowStep(IF shadow.run.pc = "reading"
                  THEN run_eof(shadow.run) ELSE shadow.run)

PairWait ==
    /\ WaitStep
    /\ ShadowStep(IF shadow.run.pc = "waiting"
                  THEN run_wait(shadow.run, child) ELSE shadow.run)

PairReportFailure ==
    /\ ReportFailureStep
    /\ ShadowStep(IF shadow.run.pc = "exited"
                  THEN run_report(shadow.run, child) ELSE shadow.run)

PairReturnSuccess ==
    /\ ReturnSuccessStep
    /\ ShadowStep(IF shadow.run.pc = "exited"
                  THEN run_return(shadow.run) ELSE shadow.run)

NextPair ==
    \/ PairSpawn
    \/ PairSpawnFail
    \/ PairRead
    \/ InsertMalformed
    \/ PairEof
    \/ PairWait
    \/ PairReportFailure
    \/ PairReturnSuccess

SpecPair == Init /\ [][NextPair]_vars

---------------------------------------------------------------------------
(* A child that writes one ChapterProgress line with a file_size of any    *)
(* number of bytes up to MaxSize, a size at the edge of a unit, or a whole *)
(* number of MiB within or beyond the first GiBs and the first TiB.        *)

MaxSize == 1100
MaxGiB == 2
MiB == KiB * KiB

SmallSizes ==
    (0 .. MaxSize) \cup {1280, 1536, MiB - 1, MiB, MiB + MiB \div 2}
GiBValues == (0 .. MaxGiB) \cup {KiB - 1, KiB, KiB + MaxGiB}
MiBValues == {0, 1, 51, 52, 512, 1023}

SizeValues ==
    {Bytes(0, r) : r \in SmallSizes}
    \cup {Bytes(g, m * MiB) : g \in GiBValues, m \in MiBValues}

ChapterProgressSized(k, p, size_bytes) ==
    JObj([type |-> JStr("chapter_progress"), chapter_number |-> JNum(k),
          progress_percentage |-> JNum(p), file_size |-> JNum(size_bytes)])

ReadSized ==
    /\ lines = <<>>
    /\ \E size_bytes \in SizeValues, now \in Times :
          ReadLine(Line(ChapterProgressSized(1, 50 * Scale, size_bytes)), now)

NextSize ==
    \/ Spawn
    \/ SpawnFail
    \/ ReadSized
    \/ Eof
    \/ Wait
    \/ ReportFailure
    \/ ReturnSuccess

SpecSize == Init /\ [][NextSize]_vars

---------------------------------------------------------------------------
(* Two runs on the same input: the same spawn outcome, the same event      *)
(* lines and the same exit status.  Each run reads its own clock when it   *)
(* handles a line; the shadow run reads it up to MaxSkew later.            *)

MaxSkew == 1

TwinLines ==
    {Line(ConversionStarted(n)) : n \in 1 .. MaxChapters}
    \cup {Line(ChapterStarted(1, JNum(1))),
          Line(ChapterProgress(1, 50 * Scale, KiB)),
          Line(ChapterCompleted(1, JNum(1))),
          Line(ConversionCompleted(TRUE)),
          Line(ErrorEvent)}

TwinRead ==
    /\ Len(lines) < MaxLines
    /\ \E line \in TwinLines, now \in Times, skew \in 0 .. MaxSkew :
          /\ ReadStep(line, now)
          /\ ShadowStep(IF shadow.run.pc = "reading"
                        THEN run_line(shadow.run, line, now + skew)
                        ELSE shadow.run)

NextTwin ==
    \/ PairSpawn
    \/ PairSpawnFail
    \/ TwinRead
    \/ PairEof
    \/ PairWait
    \/ PairReportFailure
    \/ PairReturnSuccess

SpecTwin == Init /\ [][NextTwin]_vars

---------------------------------------------------------------------------
(* Two runs side by side, as in SpecPair, where the line the shadow run    *)
(* alone reads is an in-band failure: an Error event, with or without a    *)
(* chapter, or ConversionCompleted(success=false).  shadow.inserted holds  *)
(* how much the shadow run had printed before it.                          *)

InBandFailureLines ==
    { Line(ErrorEvent), Line(ErrorEventIn(1)),
      Line(ConversionCompleted(FALSE)) }

InsertFailure ==
    /\ pc = "reading"
    /\ shadow.run.pc = "reading"
    /\ shadow.inserted = None
    /\ \E line \in InBandFailureLines, now \in Times :
          shadow' = [run |-> run_line(shadow.run, line, now),
                     inserted |-> Some(Len(shadow.run.out))]
    /\ UNCHANGED <<pc, current_chapter, total_chapters, start_time,
                   conversion_success, out, handled, lines, child,
                   return_code, ret>>

InjectLines ==
    { Line(JArr(1)),
      Line(ConversionStarted(MaxChapters)),
      Line(ChapterStarted(1, JNum(1))),
      Line(ChapterProgress(1, 50 * Scale, KiB)),
      Line(ConversionCompleted(TRUE)) }

InjectRead ==
    /\ Len(lines) < MaxLines
    /\ \E line \in InjectLines, now \in Times :
          /\ ReadStep(line, now)
          /\ ShadowStep(IF shadow.run.pc = "reading"
                        THEN run_line(shadow.run, line, now)
                        ELSE shadow.run)

NextInject ==
    \/ PairSpawn
    \/ PairSpawnFail
    \/ InjectRead
    \/ InsertFailure
    \/ PairEof
    \/ PairWait
    \/ PairReportFailure
    \/ PairReturnSuccess

SpecInject == Init /\ [][NextInject]_vars

---------------------------------------------------------------------------
(* The supervisor and the child as two processes joined by two pipes.      *)
(* The child runs a program, a sequence of writes: a line to its standard  *)
(* output or a chunk to its standard error.  A pipe holds PipeCapacity     *)
(* lines or chunks; a write to a full pipe blocks until the reader takes   *)
(* something out.  The child closes both pipes when it exits.  Here child  *)
(* is a record: the exit status, the program left to run (todo), the lines *)
(* in the stdout pipe, the chunks in the stderr pipe, and whether the      *)
(* child is still running.  The loop body takes two steps, reading a line  *)
(* (pc = "handling" while the line is in hand) and processing it.          *)

MaxWrites == 3
PipeCapacity == 2

Err == <<"stderr chunk">>
PipeLines == { Line(ConversionStarted(1)), <<Junk, WS>> }
Writes == {Err} \cup PipeLines
Programs == UNION {[1 .. n -> Writes] : n \in 0 .. MaxWrites}

PipeSpawn ==
    /\ pc = "start"
    /\ \E code \in ExitCodes, program \in Programs :
          child' = [exit_code |-> code, todo |-> program, stdout |-> <<>>,
                    stderr |-> 0, alive |-> TRUE]
    /\ Becomes(run_spawn(Cur))
    /\ UNCHANGED <<lines, shadow>>

ChildWriteStdout ==
    /\ child # None /\ child.alive
    /\ child.todo # <<>> /\ Head(child.todo) # Err
    /\ Len(child.stdout) < PipeCapacity
    /\ child' = [child EXCEPT !.stdout = Append(@, Head(child.todo)),
                              !.todo = Tail(@)]
    /\ UNCHANGED <<pc, current_chapter, total_chapters, start_time,
                   conversion_success, out, handled, lines, return_code, ret,
                   shadow>>

ChildWriteStderr ==
    /\ child # None /\ child.alive
    /\ child.todo # <<>> /\ Head(child.todo) = Err
    /\ child.stderr < PipeCapacity
    /\ child' = [child EXCEPT !.stderr = @ + 1, !.todo = Tail(@)]
    /\ UNCHANGED <<pc, current_chapter, total_chapters, start_time,
                   conversion_success, out, handled, lines, return_code, ret,
                   shadow>>

ChildExit ==
    /\ child # None /\ child.alive
    /\ child.todo = <<>>
    /\ child' = [child EXCEPT !.alive = FALSE]
    /\ UNCHANGED <<pc, current_chapter, total_chapters, start_time,
                   conversion_success, out, handled, lines, return_code, ret,
                   shadow>>

(* for line in process.stdout: the next line is taken from the pipe *)
SupervisorRead ==
    /\ pc = "reading"
    /\ child.stdout # <<>>
    /\ lines' = Append(lines, Head(child.stdout))
    /\ child' = [child EXCEPT !.stdout = Tail(@)]
    /\ pc' = "handling"
    /\ UNCHANGED <<current_chapter, total_chapters, start_time,
                   conversion_success, out, handled, return_code, ret, shadow>>

(* The loop body on the line in hand *)
SupervisorHandle ==
    /\ pc = "handling"
    /\ \E now \in Times :
          Becomes(run_line([Cur EXCEPT !.pc = "reading"], lines[Len(lines)],
                           now))
    /\ UNCHANGED <<lines, child, shadow>>

(* The pipe is empty and the child has closed it *)
SupervisorEof ==
    /\ pc = "reading"
    /\ child.stdout = <<>> /\ ~child.alive
    /\ Becomes(run_eof(Cur))
    /\ UNCHANGED <<lines, child, shadow>>

(* process.wait() returns once the child has exited *)
SupervisorWait ==
    /\ pc = "waiting"
    /\ ~child.alive
    /\ Becomes(run_wait(Cur, child))
    /\ UNCHANGED <<lines, child, shadow>>

(* process.stderr.read() returns at end-of-file, once the child has closed *)
(* its standard error                                                      *)
SupervisorFinish ==
    /\ pc = "exited"
    /\ return_code # Some(0) => ~child.alive
    /\ Becomes(run_finish(Cur, child))
    /\ UNCHANGED <<lines, child, shadow>>

NextPipes ==
    \/ PipeSpawn
    \/ SpawnFail
    \/ ChildWriteStdout
    \/ ChildWriteStderr
    \/ ChildExit
    \/ SupervisorRead
    \/ SupervisorHandle
    \/ SupervisorEof
    \/ SupervisorWait
    \/ SupervisorFinish

SpecPipes == Init /\ [][NextPipes]_vars

---------------------------------------------------------------------------
(* examples/simple_json_parser.py.  main() is a second consumer of the     *)
(* same stream: it prints each decoded line and exits with the child's     *)
(* exit status.  Its run is a record of the same shape as a run of         *)
(* run_conversion; ret is the status the process exits with.               *)

(* Popen succeeds *)
simple_spawn(r) == [r EXCEPT !.pc = "reading"]

(* Popen raises: except Exception, print, sys.exit(1) *)
simple_spawn_fail(r, cause) ==
    [r EXCEPT !.out = Append(@, <<"error_running", cause>>),
              !.ret = Some(1),
              !.pc = "done"]

(* One pass of the loop body: strip, skip an empty line, decode, print the *)
(* event or the decoding failure                                           *)
simple_line(r, line) ==
    LET text == strip(line)
    IN  IF text = <<>> THEN r
        ELSE IF json_loads(text).ok
        THEN [r EXCEPT !.out = Append(@, <<"event", json_loads(text).val>>)]
        ELSE [r EXCEPT !.out = Append(@, <<"failed_to_parse", text>>)]

simple_eof(r) == [r EXCEPT !.pc = "waiting"]

(* return_code = process.wait() *)
simple_wait(r, ch) ==
    [r EXCEPT !.return_code = Some(ch.exit_code), !.pc = "exited"]

(* The report of a non-zero status, then sys.exit(return_code); SystemExit *)
(* is not an Exception and passes the handler                              *)
simple_exit(r, ch) ==
    [r EXCEPT !.out = IF r.return_code # Some(0)
                      THEN @ \o << <<"process_failed", r.return_code[1]>>,
                                   <<"error_output", ch.stderr>> >>
                      ELSE @,
              !.ret = r.return_code,
              !.pc = "done"]

(* The two consumers side by side on the same spawn outcome, the same      *)
(* lines and the same exit status: run_conversion on the variables, main   *)
(* as the shadow run.  When run_conversion has returned through its        *)
(* exception handler, main goes on alone with the rest of the stream.      *)

BothSpawn == SpawnStep /\ ShadowStep(simple_spawn(shadow.run))

BothSpawnFail ==
    \E cause \in SpawnErrors :
        SpawnFailStep(cause)
            /\ ShadowStep(simple_spawn_fail(shadow.run, cause))

BothRead ==
    /\ Len(lines) < MaxLines
    /\ shadow.run.pc = "reading"
    /\ \E line \in PairLines, now \in Times :
          /\ ReadStep(line, now)
          /\ ShadowStep(simple_line(shadow.run, line))

BothEof == EofStep /\ ShadowStep(simple_eof(shadow.run))

BothWait == WaitStep /\ ShadowStep(simple_wait(shadow.run, child))

BothReportFailure ==
    ReportFailureStep /\ ShadowStep(simple_exit(shadow.run, child))

BothReturnSuccess ==
    ReturnSuccessStep /\ ShadowStep(simple_exit(shadow.run, child))

MainAlone(r) ==
    /\ pc = "done"
    /\ ShadowStep(r)
    /\ UNCHANGED <<pc, current_chapter, total_chapters, start_time,
                   conversion_success, out, handled, child, return_code, ret>>

MainRead ==
    /\ Len(lines) < MaxLines
    /\ shadow.run.pc = "reading"
    /\ \E line \in PairLines :
          /\ lines' = Append(lines, line)
          /\ MainAlone(simple_line(shadow.run, line))

MainEof ==
    /\ shadow.run.pc = "reading"
    /\ MainAlone(simple_eof(shadow.run))
    /\ UNCHANGED lines

MainWait ==
    /\ shadow.run.pc = "waiting"
    /\ MainAlone(simple_wait(shadow.run, child))
    /\ UNCHANGED lines

MainExit ==
    /\ shadow.run.pc = "exited"
    /\ MainAlone(simple_exit(shadow.run, child))
    /\ UNCHANGED lines

NextBoth ==
    \/ BothSpawn
    \/ BothSpawnFail
    \/ BothRead
    \/ BothEof
    \/ BothWait
    \/ BothReportFailure
    \/ BothReturnSuccess
    \/ MainRead
    \/ MainEof
    \/ MainWait
    \/ MainExit

SpecBoth == Init /\ [][NextBoth]_vars

---------------------------------------------------------------------------
(* Reading the history: what a line is, decided on the text itself *)

NonBlank(line) == SelectSeq(line, LAMBDA t : t # WS)

NotValidJson(line) ==
    ~(Len(NonBlank(line)) = 1 /\ NonBlank(line)[1].tok = "json")

Payload(line) ==
    LET text == NonBlank(line)
    IN  IF Len(text) = 1 /\ text[1].tok = "json" THEN text[1].val ELSE JNull

IsEvent(line, t) ==
    LET x == Payload(line)
    IN  x.j = "obj" /\ "type" \in DOMAIN x.v /\ IsStr(x.v.type, t)

Field(line, key) == Payload(line).v[key].v

Spawned == child # None
Done == pc = "done"
Printed(tag) == \E i \in DOMAIN out : out[i][1] = tag
Last(s) == s[Len(s)]

---------------------------------------------------------------------------
(* C1: for a child that was spawned, whatever lines it wrote,              *)
(* run_conversion returns the child's exit code (0 for 0, c for c).        *)
C1_ReturnIsChildExitCode ==
    (Done /\ Spawned) => ret = Some(child.exit_code)

(* C2: the code returned for a spawn failure is never returned for a child *)
(* that was spawned, was waited for, and exited with a non-zero status.    *)
C2_SpawnFailureCodeIsDistinct ==
    (Done /\ Spawned /\ return_code # None /\ child.exit_code # 0)
        => ret # Some(SpawnFailCode)

(* C3: reading a line that is not valid JSON neither raises nor calls      *)
(* handle_event, and leaves total_chapters, current_chapter, start_time    *)
(* and conversion_success as they were.                                    *)
C3_MalformedLineChangesNothing ==
    [][(lines' # lines /\ NotValidJson(Last(lines')))
          => /\ handled' = handled
             /\ pc' = "reading" /\ ret' = None
             /\ UNCHANGED <<total_chapters, current_chapter, start_time,
                            conversion_success>>]_vars

(* A malformed line was read after events had changed the progress state *)
C3_Witness ==
    /\ pc = "reading"
    /\ Len(lines) = 3
    /\ NotValidJson(lines[3])
    /\ IsEvent(lines[1], "conversion_started")
    /\ IsEvent(lines[2], "chapter_started")
    /\ total_chapters = 2 /\ current_chapter = 1 /\ start_time # None
    /\ handled = 2

(* C6: when the child exits with a non-zero code c and wrote no            *)
(* ConversionCompleted event, run_conversion returns c, reports the        *)
(* captured standard error, shows no success banner, and leaves            *)
(* conversion_success false.                                               *)
C6_FailedChildIsMirrored ==
    (/\ Done /\ Spawned /\ child.exit_code # 0
     /\ \A i \in DOMAIN lines : ~IsEvent(lines[i], "conversion_completed"))
        => /\ ret = Some(child.exit_code)
           /\ \E i \in DOMAIN out : out[i] = <<"error_output", child.stderr>>
           /\ ~Printed("success_banner")
           /\ conversion_success = FALSE

(* A ConversionStarted event has been handled *)
TotalKnown == \E i \in DOMAIN lines : IsEvent(lines[i], "conversion_started")

(* C7: once a ConversionStarted event has been handled, current_chapter is *)
(* at most total_chapters.                                                 *)
C7_CurrentNeverExceedsTotal == TotalKnown => current_chapter <= total_chapters

(* No ChapterStarted read so far carries a chapter_number above the        *)
(* total_chapters of a ConversionStarted read so far                       *)
ChaptersWithinTotal ==
    \A i \in DOMAIN lines :
        IsEvent(lines[i], "conversion_started") =>
            \A k \in DOMAIN lines :
                IsEvent(lines[k], "chapter_started") =>
                    Field(lines[k], "chapter_number")
                        <= Field(lines[i], "total_chapters")

(* C7 as amended: the bound holds for the streams that respect it, those   *)
(* in which no ChapterStarted carries a chapter_number above the           *)
(* total_chapters of any ConversionStarted; the handler does not enforce   *)
(* it.                                                                     *)
C7_CurrentWithinTotalWhenStreamIs ==
    (TotalKnown /\ ChaptersWithinTotal) => current_chapter <= total_chapters

(* The last chapter of a two-chapter conversion has started *)
C7_Witness ==
    /\ TotalKnown /\ ChaptersWithinTotal
    /\ Len(lines) = 3
    /\ IsEvent(lines[3], "chapter_started")
    /\ current_chapter = 2 /\ total_chapters = 2

(* C8: total_chapters is 0 until the first ConversionStarted is handled,   *)
(* and no event after that one changes it.                                 *)
C8_TotalSetOnce ==
    [][/\ ~TotalKnown' => total_chapters' = 0
       /\ TotalKnown => total_chapters' = total_chapters]_vars

(* C8 as amended: total_chapters is 0 until the first ConversionStarted,   *)
(* and only a ConversionStarted event changes it; each one, the first or a *)
(* later one, overwrites it with its own total_chapters.                   *)
C8_OnlyConversionStartedSetsTotal ==
    [][/\ ~TotalKnown' => total_chapters' = 0
       /\ (lines' # lines /\ IsEvent(Last(lines'), "conversion_started"))
             => total_chapters' = Field(Last(lines'), "total_chapters")
       /\ ~(lines' # lines /\ IsEvent(Last(lines'), "conversion_started"))
             => total_chapters' = total_chapters]_vars

(* A second ConversionStarted has replaced the first one's total *)
C8_Witness ==
    /\ Len(lines) = 3
    /\ IsEvent(lines[1], "conversion_started")
    /\ IsEvent(lines[2], "chapter_started")
    /\ IsEvent(lines[3], "conversion_started")
    /\ Field(lines[1], "total_chapters") = 1
    /\ total_chapters = 2

(* The lines h are a complete well-formed run: ConversionStarted(N), the   *)
(* three events of each chapter 1..N in order, ConversionCompleted(true)   *)
WellFormedRun(h) ==
    /\ Len(h) >= 2
    /\ IsEvent(h[1], "conversion_started")
    /\ LET n == Field(h[1], "total_chapters")
       IN  /\ Len(h) = 3 * n + 2
           /\ \A c \in 1 .. n :
                /\ IsEvent(h[3 * c - 1], "chapter_started")
                /\ Field(h[3 * c - 1], "chapter_number") = c
                /\ IsEvent(h[3 * c], "chapter_progress")
                /\ IsEvent(h[3 * c + 1], "chapter_completed")
           /\ IsEvent(h[3 * n + 2], "conversion_completed")
           /\ Field(h[3 * n + 2], "success") = TRUE

(* C5: a well-formed run of N chapters whose child exits with 0 returns 0, *)
(* shows the success banner, ends with conversion_success true and with    *)
(* current_chapter = N = total_chapters.                                   *)
C5_WellFormedRunSucceeds ==
    (Done /\ Spawned /\ child.exit_code = 0 /\ WellFormedRun(lines))
        => /\ ret = Some(0)
           /\ Printed("success_banner")
           /\ conversion_success = TRUE
           /\ current_chapter = Field(lines[1], "total_chapters")
           /\ total_chapters = Field(lines[1], "total_chapters")

(* The two-chapter run of the specification's scenario has finished *)
C5_Witness ==
    /\ Done /\ Spawned /\ child.exit_code = 0 /\ WellFormedRun(lines)
    /\ Len(lines) = 8
    /\ current_chapter = 2
    /\ ret = Some(0)

(* C4: a malformed line inserted at any position of the stream changes     *)
(* nothing: at every step and at the end, the run that read it has the     *)
(* same progress state, the same output, the same count of handled events  *)
(* and the same returned code as the run that did not.                     *)
C4_InsertedMalformedLineIsInvisible == shadow.run = Cur

(* The line was inserted after the first line, events were handled before  *)
(* and after it, and both runs have returned                               *)
C4_Witness ==
    /\ Done /\ ret = Some(0)
    /\ shadow.inserted = Some(1)
    /\ Len(lines) = 3
    /\ handled = 3
    /\ shadow.run.pc = "done"

(* A ChapterProgress line was read and its status line printed *)
ProgressShown ==
    /\ Len(lines) = 1
    /\ IsEvent(lines[1], "chapter_progress")
    /\ Len(out) >= 3
    /\ out[3][1] = "progress"

ShownFilled == out[3][2]
ShownEta == out[3][6]
Pct == Field(lines[1], "progress_percentage")

RoundNearest(a, b) == (2 * a + b) \div (2 * b)
Clamp(x, lo, hi) == IF x < lo THEN lo ELSE IF x > hi THEN hi ELSE x

C10_EtaUnknownOnlyWhenAbsent ==
    ProgressShown =>
        LET absent == "eta_seconds" \notin DOMAIN Payload(lines[1]).v
        IN  /\ ShownEta[2] = "Unknown" <=> absent
            /\ ~absent =>
                 /\ ShownEta[2] = "s"
                 /\ Scale * ShownEta[1] - Field(lines[1], "eta_seconds") <= 5
                 /\ Field(lines[1], "eta_seconds") - Scale * ShownEta[1] <= 5

ShownSize == out[3][5]
SizeBytes == Field(lines[1], "file_size")

(* The position of a unit name in B, KB, MB, GB, counted from 0 *)
UnitIndex(u) == CHOOSE k \in 0 .. 3 : <<"B", "KB", "MB", "GB">>[k + 1] = u

(* size >= 1024^k *)
AtLeastPow(size, k) ==
    IF k = 3 THEN size.gib >= 1
    ELSE size.gib >= 1 \/ size.rest >= Pow1024(k)

(* t tenths is num / den to one decimal place: within half a tenth of it,  *)
(* and even when it lies exactly between two tenths                        *)
OneDecimal(t, num, den) ==
    /\ (2 * t - 1) * den <= 20 * num
    /\ 20 * num <= (2 * t + 1) * den
    /\ (20 * num = (2 * t - 1) * den \/ 20 * num = (2 * t + 1) * den)
           => t % 2 = 0

(* The shown value is size / 1024^k to one decimal place.  A size under    *)
(* 64 MiB is compared in bytes, a larger one, a whole number of MiB, in    *)
(* MiB.                                                                    *)
ShowsValue(t, size, k) ==
    IF size.gib = 0 /\ size.rest < 64 * MiB
    THEN OneDecimal(t, size.rest, Pow1024(k))
    ELSE /\ size.rest % MiB = 0
         /\ k >= 2
         /\ OneDecimal(t, size.gib * KiB + size.rest \div MiB, Pow1024(k - 2))

(* C11: format_file_size gives "0 B" for 0; otherwise the value is the     *)
(* size divided by 1024 as many times as it takes to fall under 1024 or to *)
(* reach GB, the unit is the one of that many divisions (never past GB),   *)
(* and the value is printed with one decimal place.                        *)
C11_SizeIsScaledToItsUnit ==
    ProgressShown =>
        IF SizeBytes = Bytes(0, 0) THEN ShownSize = <<0, "0 B">>
        ELSE LET k == UnitIndex(ShownSize[2])
             IN  /\ ShownSize[2] \in {"B", "KB", "MB", "GB"}
                 /\ k = 0 \/ AtLeastPow(SizeBytes, k)
                 /\ k = 3 \/ ~AtLeastPow(SizeBytes, k + 1)
                 /\ ShowsValue(ShownSize[1], SizeBytes, k)

(* 1536 bytes were shown as 1.5 KB *)
C11_Witness ==
    /\ ProgressShown
    /\ SizeBytes = Bytes(0, 1536)
    /\ ShownSize = <<15, "KB">>

(* Two runs agree in everything but the value of start_time, and agree on  *)
(* whether start_time is set                                               *)
SameButClock(a, b) ==
    /\ a.pc = b.pc
    /\ a.out = b.out
    /\ a.handled = b.handled
    /\ a.return_code = b.return_code
    /\ a.ret = b.ret
    /\ a.self.total_chapters = b.self.total_chapters
    /\ a.self.current_chapter = b.self.current_chapter
    /\ a.self.conversion_success = b.self.conversion_success
    /\ (a.self.start_time = None) <=> (b.self.start_time = None)

AgreeButClock == SameButClock(shadow.run, Cur)

(* C12: handling the same event line from the same prior state gives the   *)
(* same output and the same resulting state: two runs stepped side by side *)
(* on the same input do not diverge in any field.                          *)
C12_SameLineSameOutcome ==
    [][(lines' # lines /\ shadow.run = Cur) => shadow.run' = Cur']_vars

(* C12 as amended: two runs stepped side by side on the same input agree,  *)
(* after every line, on the output and on every field but the value of     *)
(* start_time, which each run takes from its own clock; a difference in    *)
(* start_time changes nothing else.                                        *)
C12_SameLineSameOutcomeButClock ==
    [][(lines' # lines /\ AgreeButClock) => AgreeButClock']_vars

(* The runs recorded different start times, handled two more events and    *)
(* returned, with the same output                                          *)
C12_Witness ==
    /\ Done /\ shadow.run.pc = "done"
    /\ Len(lines) = 3 /\ handled = 3
    /\ IsEvent(lines[1], "conversion_started")
    /\ start_time # None
    /\ shadow.run.self.start_time # start_time
    /\ AgreeButClock

(* The sequence s without its element at position i *)
Without(s, i) == SubSeq(s, 1, i - 1) \o SubSeq(s, i + 1, Len(s))

(* C13: an in-band Error event or ConversionCompleted(success=false) does  *)
(* not stop the pipeline and does not change the result: the run that read *)
(* it is at the same position as the run that did not, has handled one     *)
(* event more, has printed the same output around the event's own report,  *)
(* and returns the same code, the child's exit code when the loop ended at *)
(* end-of-stream.                                                          *)
C13_InBandFailureChangesNoResult ==
    /\ shadow.run.pc = pc
    /\ shadow.run.ret = ret
    /\ shadow.run.return_code = return_code
    /\ (Done /\ return_code # None) => ret = Some(child.exit_code)
    /\ IF shadow.inserted = None THEN shadow.run = Cur
       ELSE /\ shadow.run.handled = handled + 1
            /\ shadow.run.self.total_chapters = total_chapters
            /\ shadow.run.self.current_chapter = current_chapter
            /\ shadow.run.self.start_time = start_time
            /\ shadow.run.out[shadow.inserted[1] + 1][1]
                   \in {"error", "error_in_chapter", "failure_banner"}
            /\ Without(shadow.run.out, shadow.inserted[1] + 1) = out

(* The failure was inserted before the end of the stream; events were      *)
(* handled after it, the child exited with 0 and both runs returned 0      *)
C13_Witness ==
    /\ Done /\ shadow.run.pc = "done"
    /\ shadow.inserted # None
    /\ child.exit_code = 0
    /\ ret = Some(0) /\ shadow.run.ret = Some(0)
    /\ Len(lines) = 3 /\ handled = 3 /\ shadow.run.handled = 4
    /\ IsEvent(lines[1], "conversion_started")
    /\ shadow.run.out[shadow.inserted[1] + 1][1] = "error"
    /\ shadow.inserted[1] < Len(out)

EventTypes ==
    {"conversion_started", "chapter_started", "chapter_progress",
     "chapter_completed", "conversion_completed", "error"}

(* The line decodes to an event of the schema: an object of a known type   *)
(* whose success field, if any, is a boolean, whose message, if any, is a  *)
(* string, and whose other fields are numbers                              *)
DecodableEvent(line) ==
    LET x == Payload(line)
    IN  /\ x.j = "obj"
        /\ "type" \in DOMAIN x.v
        /\ x.v.type.j = "str" /\ x.v.type.v \in EventTypes
        /\ \A key \in DOMAIN x.v :
              x.v[key].j =
                  CASE key \in {"type", "message"} -> "str"
                    [] key = "success" -> "bool"
                    [] OTHER -> "num"

(* What the handler prints first for an event of type t *)
RenderTags(t) ==
    CASE t = "conversion_started" -> {"conversion_started"}
      [] t = "chapter_started" -> {"chapter"}
      [] t = "chapter_progress" -> {"progress"}
      [] t = "chapter_completed" -> {"chapter_completed"}
      [] t = "conversion_completed" -> {"success_banner", "failure_banner"}
      [] t = "error" -> {"error", "error_in_chapter"}
      [] OTHER -> {}

(* C14: a sequence of decodable events is tolerated in any order: every    *)
(* event read has been handled and rendered, none was treated as an error, *)
(* the run returns only after end-of-stream, and the code it returns is    *)
(* the child's exit code.                                                  *)
C14_AnyOrderOfEventsIsTolerated ==
    (Spawned /\ \A i \in DOMAIN lines : DecodableEvent(lines[i]))
        => /\ handled = Len(lines)
           /\ \A i \in DOMAIN lines :
                  \E tag \in RenderTags(Field(lines[i], "type")) : Printed(tag)
           /\ Len(out) >= Len(Banner) + Len(lines)
           /\ ~Printed("error_running")
           /\ Done => /\ return_code = Some(child.exit_code)
                      /\ ret = Some(child.exit_code)
           /\ ~Done => ret = None

(* No ConversionStarted was written; a chapter above the total of 0        *)
(* started, the conversion completed, an earlier chapter started after     *)
(* that, and the run returned the child's exit code 2                      *)
C14_Witness ==
    /\ Done /\ Spawned
    /\ Len(lines) = 3
    /\ IsEvent(lines[1], "chapter_started")
    /\ Field(lines[1], "chapter_number") = 3
    /\ IsEvent(lines[2], "conversion_completed")
    /\ IsEvent(lines[3], "chapter_started")
    /\ Field(lines[3], "chapter_number") = 1
    /\ total_chapters = 0 /\ current_chapter = 1
    /\ handled = 3
    /\ child.exit_code = 2 /\ ret = Some(2)

(* This step read a line holding an event of type t *)
ReadOf(t) == lines' # lines /\ IsEvent(Last(lines'), t)

(* The line decodes to an object whose type is none of the schema's *)
UnknownTypeEvent(line) ==
    /\ Payload(line).j = "obj"
    /\ "type" \in DOMAIN Payload(line).v
    /\ \A t \in EventTypes : ~IsEvent(line, t)

(* The line holds an event that writes no field *)
WritesNothing(line) ==
    \/ UnknownTypeEvent(line)
    \/ /\ DecodableEvent(line)
       /\ \/ IsEvent(line, "chapter_progress")
          \/ IsEvent(line, "chapter_completed")
          \/ IsEvent(line, "error")

(* C15: each field has one writer: total_chapters and start_time change    *)
(* only when a ConversionStarted is handled, current_chapter only on       *)
(* ChapterStarted, conversion_success only on ConversionCompleted; a       *)
(* ChapterProgress, ChapterCompleted, Error or unknown-type event leaves   *)
(* the four fields unchanged and raises no error.                          *)
C15_EachFieldHasOneWriter ==
    [][/\ total_chapters' # total_chapters => ReadOf("conversion_started")
       /\ start_time' # start_time => ReadOf("conversion_started")
       /\ current_chapter' # current_chapter => ReadOf("chapter_started")
       /\ conversion_success' # conversion_success
              => ReadOf("conversion_completed")
       /\ (lines' # lines /\ WritesNothing(Last(lines')))
              => /\ UNCHANGED <<total_chapters, current_chapter, start_time,
                                conversion_success>>
                 /\ pc' = "reading" /\ ret' = None
                 /\ out' # out \/ UnknownTypeEvent(Last(lines'))]_vars

(* ChapterCompleted for chapter 1 was handled while chapter 2 was current, *)
(* and chapter 2 still is                                                  *)
C15_Witness ==
    /\ pc = "reading"
    /\ Len(lines) = 3 /\ handled = 3
    /\ IsEvent(lines[1], "conversion_started")
    /\ IsEvent(lines[2], "chapter_started")
    /\ IsEvent(lines[3], "chapter_completed")
    /\ Field(lines[3], "chapter_number") = 1
    /\ current_chapter = 2 /\ total_chapters = 2
    /\ start_time # None /\ conversion_success = FALSE

ShownUnfilled == out[3][3]

(* C18: the bar of every ChapterProgress event, a percentage below 0 or    *)
(* above 100 included, has exactly bar_length = 40 cells, filled and       *)
(* unfilled together.                                                      *)
C18_BarHasFortyCells ==
    ProgressShown => ShownFilled + ShownUnfilled = bar_length

(* The supervisor waits for a line: the stdout pipe is empty and open *)
SupervisorBlockedOnStdout ==
    pc = "reading" /\ child.stdout = <<>> /\ child.alive

(* The child's next write is to a full stderr pipe *)
ChildBlockedOnStderr ==
    /\ child.alive
    /\ child.todo # <<>> /\ Head(child.todo) = Err
    /\ child.stderr >= PipeCapacity

(* C16: with the child and the supervisor running concurrently over pipes  *)
(* of bounded capacity, no state is reached in which the supervisor is     *)
(* blocked waiting for the next stdout line while the child is blocked     *)
(* writing to stderr.                                                      *)
C16_NoPipeDeadlock ==
    Spawned => ~(SupervisorBlockedOnStdout /\ ChildBlockedOnStderr)

(* C17: the supervisor's steps are ordered: a line is read only when the   *)
(* line before it has been handled; the wait for the child's exit comes    *)
(* only after standard output reached end-of-file; standard error is read  *)
(* only after the child has exited, and only when its exit code is not 0.  *)
C17_SupervisorStepsAreOrdered ==
    [][/\ lines' # lines
              => /\ pc = "reading" /\ pc' = "handling"
                 /\ lines' = Append(lines, Head(child.stdout))
       /\ (pc = "handling" /\ pc' # pc)
              => /\ lines' = lines
                 /\ pc' \in {"reading", "done"}
       /\ return_code' # return_code
              => /\ pc = "waiting"
                 /\ child.stdout = <<>> /\ ~child.alive
                 /\ return_code' = Some(child.exit_code)
       /\ (Printed("error_output")' /\ ~Printed("error_output"))
              => /\ ~child.alive
                 /\ return_code = Some(child.exit_code)
                 /\ child.exit_code # 0
                 /\ Last(out') = <<"error_output", child.stderr>>]_vars

(* Two lines were read and handled, the child wrote to its standard error  *)
(* and exited with 2, and its error output was then read and reported      *)
C17_Witness ==
    /\ Done /\ Spawned
    /\ Len(lines) = 2 /\ handled = 1
    /\ ~child.alive /\ child.exit_code = 2 /\ child.stderr = 1
    /\ Printed("error_output")
    /\ ret = Some(2)

(* C19: for the same spawn outcome, the same stdout lines and the same     *)
(* child exit code, the status simple_json_parser.main exits with equals   *)
(* the value run_conversion returns.                                       *)
C19_ConsumersAgreeOnExitCode ==
    (Done /\ shadow.run.pc = "done") => shadow.run.ret = ret

===========================================================================
